---- MODULE Spec2Model ----
(***************************************************************************)
(* Model of formatron's batched decoding controller                        *)
(* (FormattersLogitsProcessor, src/formatron/integrations/transformers.py) *)
(* driving one grammar state machine (Formatter) per lane.                 *)
(***************************************************************************)
EXTENDS Integers, Sequences, FiniteSets, TLC

\* ---------------------------------------------------------------- bounds
NumLanes == 2
VocabSize == 3
MaxLen == 3
MaxPrompt == 2
GrammarLen == 2

\* ------------------------------------------------------------- constants
\* float("-inf")
NegInf == -1000
\* Python's None, as the value of _last_input_id_length before the first call
None == -1

Vocab == 0 .. (VocabSize - 1)
Lanes == 1 .. NumLanes

VARIABLES
    formatters,            \* self._formatters: one state machine per lane
    configs,               \* self.configs: one EngineGenerationConfig per lane
    eos_token_id,          \* self._eos_token_id
    last_input_id_length,  \* self._last_input_id_length (None before call 1)
    input_ids,             \* argument of the running call: token matrix [B, T]
    scores_in,             \* argument of the running call: score matrix on entry
    scores,                \* the same matrix object when the call ended
    mask_in_place,         \* whether mask_logits mutates and returns its argument
    length_before,         \* _last_input_id_length when the call was entered
    outcome,               \* how the call ended ("none": no call is running)
    trace,                 \* operations the call performed, in order
    twin,                  \* a second controller, run side by side (SpecPair)
    args,                  \* arguments of an operation outside the call loop
    result                 \* what that operation returned or raised

vars == <<formatters, configs, eos_token_id, last_input_id_length,
          input_ids, scores_in, scores, mask_in_place, length_before,
          outcome, trace, twin, args, result>>

\* ------------------------------------------------ the state machine (Formatter)
\* Formatter is an external collaborator: a position in a grammar of
\* GrammarLen steps, and the allowed-token set cached by the last
\* compute_allowed_tokens.
AllowedAt(pos) ==
    IF pos >= GrammarLen THEN {}
    ELSE {t \in Vocab : t >= pos /\ t < VocabSize - 1}

is_completed(f) == f.pos = GrammarLen

reset(f) == [f EXCEPT !.pos = 0]

\* accept_token raises when the automaton rejects the token
Accepts(f, token) == token \in AllowedAt(f.pos)

accept_token(f, token) == [f EXCEPT !.pos = @ + 1]

compute_allowed_tokens(f) == [f EXCEPT !.allowed = AllowedAt(f.pos)]

mask_logits(f, score) ==
    [t \in Vocab |-> IF t \in f.allowed THEN score[t] ELSE NegInf]

\* ---------------------------------------------------------------- events
Ev(i, op, arg) == <<i, op, arg>>

\* ------------------------------------------------------------ the controller
\* line 89: assert input_ids.shape[0] == len(self._formatters)
BatchOk(fs, ids) == Len(ids) = Len(fs)

\* the assertion relaxed to "at least one token longer"
LengthOk_AtLeast(last, T) == T >= last + 1

\* line 100: assert input_ids.shape[1] == self._last_input_id_length + 1
LengthOk(last, T) == T = last + 1

\* the reset decided by completion alone, the config ignored
ShouldReset_IgnoresConfig(config, f) == is_completed(f)

\* line 94: config.reset_on_completion and formatter.is_completed()
ShouldReset(config, f) == config.reset_on_completion /\ is_completed(f)

\* the end-of-sequence test dropped: every new token is fed
ShouldFeed_Always(eos, input_id) == TRUE

\* line 104: input_id != self._eos_token_id
ShouldFeed(eos, input_id) == input_id # eos

\* the first column taken instead of the last
FirstToken(row) == row[1]

\* line 103: input_ids[:, -1]
LastToken(row) == row[Len(row)]

\* lines 97-98: for token in prompt: formatter.accept_token(token)
RECURSIVE FeedPrompt(_, _, _, _)
FeedPrompt(f, prompt, j, i) ==
    IF j > Len(prompt) THEN [f |-> f, log |-> <<>>, ok |-> TRUE]
    ELSE IF ~Accepts(f, prompt[j])
         THEN [f |-> f,
               log |-> <<Ev(i, "accept_token", prompt[j]), Ev(i, "raise", prompt[j])>>,
               ok |-> FALSE]
         ELSE LET r == FeedPrompt(accept_token(f, prompt[j]), prompt, j + 1, i)
              IN  [f |-> r.f,
                   log |-> <<Ev(i, "accept_token", prompt[j])>> \o r.log,
                   ok |-> r.ok]

\* lines 94-98: the body of the first-iteration loop for one lane
FirstLane(f, config, prompt, i) ==
    LET f1   == IF ShouldReset(config, f) THEN reset(f) ELSE f
        log1 == IF ShouldReset(config, f) THEN <<Ev(i, "reset", None)>> ELSE <<>>
    IN  IF config.read_prompt
        THEN LET r == FeedPrompt(f1, prompt, 1, i)
             IN  [f |-> r.f, log |-> log1 \o r.log, ok |-> r.ok]
        ELSE [f |-> f1, log |-> log1, ok |-> TRUE]

\* the later-iteration loop resetting a Completed lane before it feeds it
LaterLane_ResetCompleted(f, eos, input_id, i) ==
    LET f0   == IF is_completed(f) THEN reset(f) ELSE f
        log0 == IF is_completed(f) THEN <<Ev(i, "reset", None)>> ELSE <<>>
    IN  IF ShouldFeed(eos, input_id)
        THEN IF Accepts(f0, input_id)
             THEN [f |-> accept_token(f0, input_id),
                   log |-> log0 \o <<Ev(i, "accept_token", input_id)>>, ok |-> TRUE]
             ELSE [f |-> f0,
                   log |-> log0 \o <<Ev(i, "accept_token", input_id),
                                     Ev(i, "raise", input_id)>>,
                   ok |-> FALSE]
        ELSE [f |-> f0, log |-> log0, ok |-> TRUE]

\* lines 104-105: the body of the later-iteration loop for one lane
LaterLane(f, eos, input_id, i) ==
    IF ShouldFeed(eos, input_id)
    THEN IF Accepts(f, input_id)
         THEN [f |-> accept_token(f, input_id),
               log |-> <<Ev(i, "accept_token", input_id)>>, ok |-> TRUE]
         ELSE [f |-> f,
               log |-> <<Ev(i, "accept_token", input_id), Ev(i, "raise", input_id)>>,
               ok |-> FALSE]
    ELSE [f |-> f, log |-> <<>>, ok |-> TRUE]

\* the exception caught per lane, the loop going on with the next lane
Raised_Swallowed(r) == FALSE

\* lines 98 and 105: accept_token is called outside any try block, so its
\* exception ends the loop and the call
Raised(r) == ~r.ok

\* lines 93-98 and 103-105: the state update, lane after lane in the order
\* given (the code's order is 1, 2, ...); an exception of accept_token leaves
\* the loop, the lanes after it untouched
RECURSIVE StateUpdate(_, _, _, _, _, _, _)
StateUpdate(fs, cfgs, eos, ids, first, order, k) ==
    IF k > Len(order) THEN [fs |-> fs, log |-> <<>>, ok |-> TRUE]
    ELSE LET i == order[k]
             r == IF first THEN FirstLane(fs[i], cfgs[i], ids[i], i)
                  ELSE LaterLane(fs[i], eos, LastToken(ids[i]), i)
             fs1 == [fs EXCEPT ![i] = r.f]
         IN  IF Raised(r) THEN [fs |-> fs1, log |-> r.log, ok |-> FALSE]
             ELSE LET rest == StateUpdate(fs1, cfgs, eos, ids, first, order, k + 1)
                  IN  [fs |-> rest.fs, log |-> r.log \o rest.log, ok |-> rest.ok]

\* only the end-of-sequence score set, the rest of the row kept
ForceEos_KeepRest(eos, row) == [row EXCEPT ![eos] = 0]

\* lines 108-109: scores[i, :] = -inf; scores[i, eos] = 0.0
ForceEos(eos, row) == [t \in Vocab |-> IF t = eos THEN 0 ELSE NegInf]

\* lines 115-116: write the row back if mask_logits returned another object
WriteBack(in_place, i) == IF in_place THEN <<>> ELSE <<Ev(i, "write_back", None)>>

\* the masking loop without compute_allowed_tokens: mask_logits works from
\* the allowed set of an earlier state
MaskLane_NoCompute(f, eos, sc, in_place, i) ==
    IF is_completed(f)
    THEN IF i > Len(sc)
         THEN [f |-> f, sc |-> sc, log |-> <<>>, ok |-> FALSE]
         ELSE [f |-> f, sc |-> [sc EXCEPT ![i] = ForceEos(eos, sc[i])],
               log |-> <<Ev(i, "fill", NegInf), Ev(i, "set_eos", eos)>>,
               ok |-> TRUE]
    ELSE IF i > Len(sc)
         THEN [f |-> f, sc |-> sc, log |-> <<>>, ok |-> FALSE]
         ELSE [f |-> f, sc |-> [sc EXCEPT ![i] = mask_logits(f, sc[i])],
               log |-> <<Ev(i, "mask_logits", None)>> \o WriteBack(in_place, i),
               ok |-> TRUE]

\* lines 107-116: the body of the masking loop for one lane; sc is the score
\* matrix, in_place tells whether mask_logits mutates the row it is given and
\* returns it, or returns a new row; indexing a missing row raises IndexError
MaskLane(f, eos, sc, in_place, i) ==
    IF is_completed(f)
    THEN IF i > Len(sc)
         THEN [f |-> f, sc |-> sc, log |-> <<>>, ok |-> FALSE]
         ELSE [f |-> f, sc |-> [sc EXCEPT ![i] = ForceEos(eos, sc[i])],
               log |-> <<Ev(i, "fill", NegInf), Ev(i, "set_eos", eos)>>,
               ok |-> TRUE]
    ELSE LET f1 == compute_allowed_tokens(f)
         IN  IF i > Len(sc)
             THEN [f |-> f1, sc |-> sc,
                   log |-> <<Ev(i, "compute_allowed_tokens", None)>>, ok |-> FALSE]
             ELSE [f |-> f1, sc |-> [sc EXCEPT ![i] = mask_logits(f1, sc[i])],
                   log |-> <<Ev(i, "compute_allowed_tokens", None),
                             Ev(i, "mask_logits", None)>> \o WriteBack(in_place, i),
                   ok |-> TRUE]

\* the masking loop leaving at the first Completed lane (break for continue)
RECURSIVE Masking_BreakOnCompleted(_, _, _, _, _, _)
Masking_BreakOnCompleted(fs, eos, sc, in_place, order, k) ==
    IF k > Len(order) THEN [fs |-> fs, sc |-> sc, log |-> <<>>, ok |-> TRUE]
    ELSE LET i == order[k]
             r == MaskLane(fs[i], eos, sc, in_place, i)
             fs1 == [fs EXCEPT ![i] = r.f]
         IN  IF ~r.ok THEN [fs |-> fs1, sc |-> r.sc, log |-> r.log, ok |-> FALSE]
             ELSE IF is_completed(fs[i])
             THEN [fs |-> fs1, sc |-> r.sc, log |-> r.log, ok |-> TRUE]
             ELSE LET rest == Masking_BreakOnCompleted(fs1, eos, r.sc, in_place,
                                                       order, k + 1)
                  IN  [fs |-> rest.fs, sc |-> rest.sc,
                       log |-> r.log \o rest.log, ok |-> rest.ok]

\* lines 106-116: the masking loop
RECURSIVE Masking(_, _, _, _, _, _)
Masking(fs, eos, sc, in_place, order, k) ==
    IF k > Len(order) THEN [fs |-> fs, sc |-> sc, log |-> <<>>, ok |-> TRUE]
    ELSE LET i == order[k]
             r == MaskLane(fs[i], eos, sc, in_place, i)
             fs1 == [fs EXCEPT ![i] = r.f]
         IN  IF ~r.ok THEN [fs |-> fs1, sc |-> r.sc, log |-> r.log, ok |-> FALSE]
             ELSE LET rest == Masking(fs1, eos, r.sc, in_place, order, k + 1)
                  IN  [fs |-> rest.fs, sc |-> rest.sc,
                       log |-> r.log \o rest.log, ok |-> rest.ok]

\* enumerate(self._formatters): the lanes in the order the code visits them
CodeOrder(fs) == [k \in 1 .. Len(fs) |-> k]

\* the recorded length written after the loops only: a raise leaves it as it was
LengthOnRaise_Late(last, last1) == last

\* lines 92 and 102 stand before the loops that feed the state machines: when
\* accept_token raises, the recorded length has already been set (last1)
LengthOnRaise(last, last1) == last1

\* lines 88-117: __call__ as a function of the controller's fields and the
\* arguments: the fields and the score matrix as the call leaves them
DoCall(fs, cfgs, eos, last, ids, sc, in_place, order) ==
    LET T     == Len(ids[1])
        first == last = None
        upd   == StateUpdate(fs, cfgs, eos, ids, first, order, 1)
        msk   == Masking(upd.fs, eos, sc, in_place, order, 1)
    IN  IF ~BatchOk(fs, ids)
        THEN [formatters |-> fs, last |-> last, scores |-> sc,
              outcome |-> "assert_batch", trace |-> <<>>]
        ELSE IF ~first /\ ~LengthOk(last, T)
        THEN [formatters |-> fs, last |-> last, scores |-> sc,
              outcome |-> "assert_length", trace |-> <<>>]
        ELSE LET last1 == IF first THEN T ELSE last + 1
             IN  IF ~upd.ok
                 THEN [formatters |-> upd.fs,
                       last |-> LengthOnRaise(last, last1), scores |-> sc,
                       outcome |-> "accept_error", trace |-> upd.log]
                 ELSE [formatters |-> msk.fs, last |-> last1, scores |-> msk.sc,
                       outcome |-> IF msk.ok THEN "ok" ELSE "index_error",
                       trace |-> upd.log \o msk.log]

\* ------------------------------------------------------------------ inputs
\* Token rows of length T: every prompt for the first call; for a later call
\* the code reads the last column only, so the earlier columns are held at 0.
InputRows(T) == [1 .. T -> Vocab]
LaterRows(T) == {[j \in 1 .. T |-> IF j = T THEN l ELSE 0] : l \in Vocab}
RowsFor(T) == IF last_input_id_length = None THEN InputRows(T) ELSE LaterRows(T)

\* Incoming score matrices of M rows: every row flat, or every row already
\* holding -inf at token 0 and values that differ from lane to lane.
ScoreMatrices(M) ==
    {[i \in 1 .. M |-> [t \in Vocab |-> 1]],
     [i \in 1 .. M |-> [t \in Vocab |-> IF t = 0 THEN NegInf ELSE t + i]]}

\* The history length the controller expects next (any prompt length at first)
ExpectedLens ==
    IF last_input_id_length = None THEN 1 .. MaxPrompt
    ELSE {last_input_id_length + 1} \cap (1 .. MaxLen)

\* ------------------------------------------------------------------ actions
Init ==
    /\ formatters \in [Lanes -> [pos : 0 .. GrammarLen, allowed : {{}}]]
    /\ configs \in [Lanes -> [reset_on_completion : BOOLEAN, read_prompt : BOOLEAN]]
    /\ eos_token_id = VocabSize - 1
    /\ last_input_id_length = None
    /\ input_ids = <<>>
    /\ scores_in = <<>>
    /\ scores = <<>>
    /\ mask_in_place = TRUE
    /\ length_before = None
    /\ outcome = "none"
    /\ trace = <<>>
    /\ twin = <<>>
    /\ args = <<>>
    /\ result = <<>>

\* lines 88-117: FormattersLogitsProcessor.__call__(input_ids, scores)
Call(ids, sc, in_place) ==
    LET r == DoCall(formatters, configs, eos_token_id, last_input_id_length,
                    ids, sc, in_place, CodeOrder(formatters))
    IN  /\ outcome = "none"
        /\ input_ids' = ids
        /\ scores_in' = sc
        /\ mask_in_place' = in_place
        /\ length_before' = last_input_id_length
        /\ formatters' = r.formatters
        /\ last_input_id_length' = r.last
        /\ scores' = r.scores
        /\ outcome' = r.outcome
        /\ trace' = r.trace
        /\ UNCHANGED <<configs, eos_token_id, args, result>>

\* No call is running: the host loop may make its next call.
Idle == outcome = "none"

\* A call of the host loop that respects the shapes: one token row and one
\* score row per lane, the history one token longer than at the last call.
StepCall ==
    /\ Idle
    /\ \E T \in ExpectedLens, in_place \in BOOLEAN :
          \E ids \in [Lanes -> RowsFor(T)], sc \in ScoreMatrices(NumLanes) :
              Call(ids, sc, in_place)
    /\ UNCHANGED twin

\* A call whose batch (token rows and score rows alike) is not one per lane.
BadBatchCall ==
    /\ Idle
    /\ \E B \in {NumLanes - 1, NumLanes + 1}, T \in ExpectedLens :
          /\ B >= 1
          /\ \E row \in RowsFor(T), sc \in ScoreMatrices(B) :
                Call([i \in 1 .. B |-> row], sc, TRUE)
    /\ UNCHANGED twin

\* A later call whose history did not grow by exactly one token.
BadLengthCall ==
    /\ Idle
    /\ last_input_id_length # None
    /\ \E T \in 1 .. MaxLen :
          /\ T # last_input_id_length + 1
          /\ \E row \in LaterRows(T), sc \in ScoreMatrices(NumLanes) :
                Call([i \in Lanes |-> row], sc, TRUE)
    /\ UNCHANGED twin

\* A call with one token row per lane but a score matrix of another height.
BadRowsCall ==
    /\ Idle
    /\ \E M \in {NumLanes - 1, NumLanes + 1}, T \in ExpectedLens :
          /\ M >= 1
          /\ \E row \in RowsFor(T), sc \in ScoreMatrices(M) :
                Call([i \in Lanes |-> row], sc, TRUE)
    /\ UNCHANGED twin

\* The call has returned or raised: the host loop drops the call's arguments
\* and result before the next generation step.
DropCall ==
    /\ outcome # "none"
    /\ input_ids' = <<>>
    /\ scores_in' = <<>>
    /\ scores' = <<>>
    /\ mask_in_place' = TRUE
    /\ length_before' = None
    /\ trace' = <<>>
    /\ outcome' = "none"
    /\ UNCHANGED <<formatters, configs, eos_token_id, last_input_id_length,
                   args, result>>

Return == DropCall /\ UNCHANGED twin

Next == StepCall \/ BadBatchCall \/ BadLengthCall \/ BadRowsCall \/ Return

Spec == Init /\ [][Next]_vars

\* ------------------------------------------------- two controllers side by side
\* SpecPair runs two controllers through the same calls. They agree on one
\* lane, focus: its state machine, its config, its tokens and its score rows.
\* The controller of the variables above is the reference: its other lanes are
\* inert (nothing read from the prompt, no reset, only end-of-sequence tokens
\* appended, flat score rows). The twin's other lanes are arbitrary, and the
\* twin visits its lanes in any order. Two arbitrary runs that agree on
\* focus each agree with the reference, hence with each other.
InertConfig == [reset_on_completion |-> FALSE, read_prompt |-> FALSE]
FlatRow == [t \in Vocab |-> 1]
FocusScoreRows == {FlatRow, [t \in Vocab |-> IF t = 0 THEN NegInf ELSE t + 1]}
OtherScoreRows == {[t \in Vocab |-> IF t = 1 THEN NegInf ELSE t + 2]}
Orders == {o \in [Lanes -> Lanes] : \A i \in Lanes : \E k \in Lanes : o[k] = i}

InitPair ==
    /\ \E focus \in Lanes :
          /\ formatters \in [Lanes -> [pos : 0 .. GrammarLen, allowed : {{}}]]
          /\ configs \in [Lanes -> [reset_on_completion : BOOLEAN,
                                     read_prompt : BOOLEAN]]
          /\ \A i \in Lanes \ {focus} :
                formatters[i].pos = 0 /\ configs[i] = InertConfig
          /\ \E fs \in [Lanes -> [pos : 0 .. GrammarLen, allowed : {{}}]],
                cfgs \in [Lanes -> [reset_on_completion : BOOLEAN,
                                    read_prompt : BOOLEAN]] :
                /\ fs[focus] = formatters[focus]
                /\ cfgs[focus] = configs[focus]
                /\ twin = [focus |-> focus, formatters |-> fs, configs |-> cfgs,
                           last |-> None, input_ids |-> <<>>, scores_in |-> <<>>,
                           scores |-> <<>>, order |-> <<>>, outcome |-> "none",
                           trace |-> <<>>]
    /\ eos_token_id = VocabSize - 1
    /\ last_input_id_length = None
    /\ input_ids = <<>>
    /\ scores_in = <<>>
    /\ scores = <<>>
    /\ mask_in_place = TRUE
    /\ length_before = None
    /\ outcome = "none"
    /\ trace = <<>>
    /\ args = <<>>
    /\ result = <<>>

\* Both controllers are called: the same tokens and scores on lane focus,
\* the twin's own tokens and scores on its other lanes.
PairCall ==
    /\ Idle
    /\ twin.outcome = "none"
    /\ \E T \in ExpectedLens, in_place \in BOOLEAN, order \in Orders,
          frow_sc \in FocusScoreRows, orow_sc \in OtherScoreRows :
          \E frow \in RowsFor(T),
             orows \in [Lanes \ {twin.focus} -> LaterRows(T)] :
              LET f    == twin.focus
                  idsA == [i \in Lanes |-> IF i = f THEN frow
                                           ELSE [j \in 1 .. T |-> eos_token_id]]
                  idsB == [i \in Lanes |-> IF i = f THEN frow ELSE orows[i]]
                  scA  == [i \in Lanes |-> IF i = f THEN frow_sc ELSE FlatRow]
                  scB  == [i \in Lanes |-> IF i = f THEN frow_sc ELSE orow_sc]
                  r    == DoCall(twin.formatters, twin.configs, eos_token_id,
                                 twin.last, idsB, scB, in_place, order)
              IN  /\ Call(idsA, scA, in_place)
                  /\ twin' = [twin EXCEPT !.formatters = r.formatters,
                                          !.last = r.last,
                                          !.input_ids = idsB,
                                          !.scores_in = scB,
                                          !.scores = r.scores,
                                          !.order = order,
                                          !.outcome = r.outcome,
                                          !.trace = r.trace]

\* Both calls have returned; the pair goes on while both runs succeed.
PairReturn ==
    /\ outcome = "ok"
    /\ twin.outcome = "ok"
    /\ DropCall
    /\ twin' = [twin EXCEPT !.input_ids = <<>>, !.scores_in = <<>>,
                            !.scores = <<>>, !.order = <<>>,
                            !.outcome = "none", !.trace = <<>>]

NextPair == PairCall \/ PairReturn

SpecPair == InitPair /\ [][NextPair]_vars

\* ----------------------------------------------------- reading the trace
\* the operations of kind op the call performed on lane i, in order
OpsOf(tr, i, op) == SelectSeq(tr, LAMBDA e : e[1] = i /\ e[2] = op)
\* the state-machine operations the call performed on lane i, in order
StateOps == {"reset", "accept_token"}
LaneStateOps(tr, i) == SelectSeq(tr, LAMBDA e : e[1] = i /\ e[2] \in StateOps)
\* the operations that write a score row
RowWrites == {"fill", "set_eos", "mask_logits", "write_back"}
Position(tr, e) == CHOOSE k \in 1 .. Len(tr) : tr[k] = e
Called == outcome # "none"
FirstCall == Called /\ length_before = None
LaterCall == Called /\ length_before # None

IsPrefix(p, q) == Len(p) <= Len(q) /\ \A k \in 1 .. Len(p) : p[k] = q[k]
\* a step of the model in which the controller is called
CallStep == outcome = "none" /\ outcome' # "none"

\* ------------------------------------------------------------------- C1
\* C1: a later call whose history is not exactly one token longer than the
\* recorded length ends in the length assertion with no operation on any
\* state machine, no score row written and the recorded length unchanged;
\* and a later call whose history is exactly one token longer than the
\* recorded length is never stopped by the length assertion.
C1_LengthAbortHasNoEffect ==
    [][(CallStep /\ last_input_id_length # None
            /\ Len(input_ids') = Len(formatters))
       => /\ (Len(input_ids'[1]) # last_input_id_length + 1)
               => /\ outcome' = "assert_length"
                  /\ trace' = <<>>
                  /\ scores' = scores_in'
                  /\ formatters' = formatters
                  /\ last_input_id_length' = last_input_id_length
          /\ (Len(input_ids'[1]) = last_input_id_length + 1)
               => /\ outcome' # "assert_length"
                  /\ last_input_id_length' = last_input_id_length + 1]_vars

C1_Witness ==
    /\ outcome = "assert_length"
    /\ length_before # None
    /\ Len(input_ids[1]) > length_before + 1
    /\ last_input_id_length = length_before

\* ------------------------------------------------------------------- C2
\* C2: a call whose score matrix has a row count other than the number of
\* lanes is fatal, performs no state-machine operation, writes no score row
\* and leaves the history-length counter unchanged.
C2_RowCountMismatchAborts ==
    (Called /\ Len(scores_in) # Len(formatters))
    => /\ outcome \in {"assert_batch", "assert_length"}
       /\ trace = <<>>
       /\ scores = scores_in
       /\ last_input_id_length = length_before

\* ------------------------------------------------------------------- C3
\* C3: in a successful later call every lane's state machine receives exactly
\* one accept_token, of the last token of the lane's history, when that token
\* is not the end-of-sequence id, and no state-machine operation otherwise.
C3_FeedsOnlyTheNewToken ==
    (LaterCall /\ outcome = "ok")
    => \A i \in Lanes :
          LET tok == input_ids[i][Len(input_ids[i])]
          IN  LaneStateOps(trace, i) =
                IF tok # eos_token_id THEN <<Ev(i, "accept_token", tok)>> ELSE <<>>

C3_Witness ==
    /\ LaterCall /\ outcome = "ok"
    /\ Len(input_ids[1]) >= 2
    /\ \E i, j \in Lanes :
          /\ input_ids[i][Len(input_ids[i])] = eos_token_id
          /\ LaneStateOps(trace, i) = <<>>
          /\ input_ids[j][Len(input_ids[j])] # input_ids[j][1]
          /\ Len(LaneStateOps(trace, j)) = 1

\* ------------------------------------------------------------------- C4
\* C4: in the first call a lane's state machine is reset iff its config has
\* reset_on_completion and it is Completed on entry; then, with read_prompt,
\* every prompt token is fed in history order, and without read_prompt no
\* token is fed. A call that an accept_token failure cuts short has performed
\* a prefix of these operations on every lane.
ExpectedFirstOps(i, fs, ids) ==
    (IF configs[i].reset_on_completion /\ fs[i].pos = GrammarLen
     THEN <<Ev(i, "reset", None)>> ELSE <<>>)
    \o (IF configs[i].read_prompt
        THEN [j \in 1 .. Len(ids[i]) |-> Ev(i, "accept_token", ids[i][j])]
        ELSE <<>>)

C4_FirstCallReplaysPrompt ==
    [][(CallStep /\ last_input_id_length = None
            /\ Len(input_ids') = Len(formatters))
       => \A i \in Lanes :
            /\ IsPrefix(LaneStateOps(trace', i),
                        ExpectedFirstOps(i, formatters, input_ids'))
            /\ outcome' # "accept_error"
                 => LaneStateOps(trace', i)
                      = ExpectedFirstOps(i, formatters, input_ids')]_vars

C4_Witness ==
    /\ FirstCall /\ outcome = "ok"
    /\ \E i, j \in Lanes :
          /\ Len(input_ids[i]) = 2
          /\ LaneStateOps(trace, i) =
               <<Ev(i, "reset", None), Ev(i, "accept_token", input_ids[i][1]),
                 Ev(i, "accept_token", input_ids[i][2])>>
          /\ input_ids[i][1] # input_ids[i][2]
          /\ ~configs[j].read_prompt
          /\ LaneStateOps(trace, j) = <<>>

\* ------------------------------------------------------------------- C5
\* C5: when a call succeeds, the row of every lane whose state machine is
\* Completed is -inf everywhere but 0 at the end-of-sequence id, whatever
\* the row held on entry, and the call ran neither compute_allowed_tokens nor
\* mask_logits on that lane.
C5_CompletedLaneIsEosOnly ==
    outcome = "ok"
    => \A i \in Lanes :
          formatters[i].pos = GrammarLen
          => /\ \A t \in Vocab :
                   scores[i][t] = IF t = eos_token_id THEN 0 ELSE NegInf
             /\ OpsOf(trace, i, "compute_allowed_tokens") = <<>>
             /\ OpsOf(trace, i, "mask_logits") = <<>>

C5_Witness ==
    /\ outcome = "ok"
    /\ \E i \in Lanes :
          /\ formatters[i].pos = GrammarLen
          /\ scores_in[i][eos_token_id] # 0
          /\ \E t \in Vocab : t # eos_token_id /\ scores_in[i][t] # NegInf
          /\ scores[i][eos_token_id] = 0

\* ------------------------------------------------------------------- C6
\* C6: when a call succeeds, every lane whose state machine is not Completed
\* got exactly one compute_allowed_tokens and then exactly one mask_logits,
\* both after every reset and accept_token of the call; its row is its
\* incoming row with every token outside the allowed set of the updated
\* state at -inf; and the controller wrote the row back exactly when
\* mask_logits returned a new row.
C6_MaskAfterUpdate ==
    outcome = "ok"
    => \A i \in Lanes :
          formatters[i].pos # GrammarLen
          => /\ Len(OpsOf(trace, i, "compute_allowed_tokens")) = 1
             /\ Len(OpsOf(trace, i, "mask_logits")) = 1
             /\ Position(trace, Ev(i, "compute_allowed_tokens", None))
                  < Position(trace, Ev(i, "mask_logits", None))
             /\ \A k \in 1 .. Len(trace) :
                   trace[k][2] \in {"reset", "accept_token"}
                   => k < Position(trace, Ev(i, "compute_allowed_tokens", None))
             /\ \A t \in Vocab :
                   scores[i][t] = IF t \in AllowedAt(formatters[i].pos)
                                  THEN scores_in[i][t] ELSE NegInf
             /\ Len(OpsOf(trace, i, "write_back")) = IF mask_in_place THEN 0 ELSE 1
             /\ ~mask_in_place
                  => Position(trace, Ev(i, "mask_logits", None)) + 1
                       = Position(trace, Ev(i, "write_back", None))

C6_Witness ==
    /\ outcome = "ok" /\ ~mask_in_place
    /\ \E i \in Lanes :
          /\ formatters[i].pos # GrammarLen
          /\ Len(OpsOf(trace, i, "accept_token")) >= 1
          /\ Len(OpsOf(trace, i, "write_back")) = 1
          /\ \E t \in Vocab : scores[i][t] # scores_in[i][t]
          /\ \E t \in Vocab : scores[i][t] # NegInf

\* ------------------------------------------------------------------- C7
\* C7: two runs of successful calls that agree on lane focus (state machine,
\* config, tokens, incoming scores) and differ in the other lanes and in the
\* order the lanes are visited perform the same operations on lane focus, in
\* the same order, and leave the same score row and the same state machine
\* for it; and whenever the twin's call succeeds, so does the call of the
\* reference run, whose other lanes cannot fail.
LaneOps(tr, i) == SelectSeq(tr, LAMBDA e : e[1] = i)
PairCalled == outcome # "none" /\ twin # <<>> /\ twin.outcome # "none"

C7_LaneIndependence ==
    PairCalled
    => /\ (outcome = "ok" /\ twin.outcome = "ok")
            => /\ LaneOps(trace, twin.focus) = LaneOps(twin.trace, twin.focus)
               /\ scores[twin.focus] = twin.scores[twin.focus]
               /\ formatters[twin.focus] = twin.formatters[twin.focus]
       /\ twin.outcome = "ok" => outcome = "ok"

C7_Witness ==
    /\ PairCalled
    /\ outcome = "ok" /\ twin.outcome = "ok"
    /\ length_before # None
    /\ twin.order # CodeOrder(formatters)
    /\ Len(OpsOf(trace, twin.focus, "accept_token")) = 1
    /\ \E i \in Lanes :
          /\ i # twin.focus
          /\ twin.formatters[i] # formatters[i]
          /\ twin.configs[i] # configs[i]
          /\ twin.input_ids[i] # input_ids[i]
          /\ twin.scores_in[i] # scores_in[i]
          /\ twin.scores[i] # scores[i]

\* ------------------------------------------------------------------- C8
\* C8: in a call after the history baseline was recorded, a lane that is
\* Completed on entry and whose appended token is the end-of-sequence id gets
\* no accept_token and no reset and stays Completed, and when the call runs
\* to its end the lane's row is again end-of-sequence-only.
C8_StickyCompletion ==
    [][(CallStep /\ last_input_id_length # None)
       => \A i \in Lanes :
            (/\ i <= Len(input_ids')
             /\ formatters[i].pos = GrammarLen
             /\ input_ids'[i][Len(input_ids'[i])] = eos_token_id)
            => /\ \A k \in 1 .. Len(trace') :
                     trace'[k][1] = i => trace'[k][2] \in {"fill", "set_eos"}
               /\ formatters'[i].pos = GrammarLen
               /\ outcome' = "ok"
                    => \A t \in Vocab :
                          scores'[i][t] = IF t = eos_token_id THEN 0 ELSE NegInf]_vars

C8_Witness ==
    /\ LaterCall /\ outcome = "ok"
    /\ length_before >= 2
    /\ \E i \in Lanes :
          /\ formatters[i].pos = GrammarLen
          /\ input_ids[i][Len(input_ids[i])] = eos_token_id
          /\ LaneStateOps(trace, i) = <<>>
          /\ scores[i][eos_token_id] = 0
          /\ scores_in[i][eos_token_id] # 0

\* ------------------------------------------------------------------- C9
\* C9: accept_token is never invoked with the end-of-sequence token id, the
\* prompt replay of the first call included.
C9_EosNeverFed ==
    \A k \in 1 .. Len(trace) :
        trace[k][2] = "accept_token" => trace[k][3] # eos_token_id

\* ------------------------------------------------------------------ C10
\* C10: when an accept_token of a call raises, the call ends there with that
\* error: the raise is the last operation of the call, and no score row of
\* any lane is written or masked in that call.
C10_AcceptFailureIsFatal ==
    (\E k \in 1 .. Len(trace) : trace[k][2] = "raise")
    => /\ outcome = "accept_error"
       /\ trace[Len(trace)][2] = "raise"
       /\ \A k \in 1 .. (Len(trace) - 1) : trace[k][2] # "raise"
       /\ \A k \in 1 .. Len(trace) :
             trace[k][2] \notin RowWrites \cup {"compute_allowed_tokens"}
       /\ scores = scores_in

C10_Witness ==
    /\ outcome = "accept_error"
    /\ \E i, j \in Lanes :
          /\ i < j
          /\ Len(OpsOf(trace, i, "accept_token")) = 1
          /\ OpsOf(trace, i, "raise") = <<>>
          /\ Len(OpsOf(trace, j, "raise")) = 1
          /\ formatters[i].pos = GrammarLen

\* ------------------------------------------------------------------- C19
\* C19: reset is invoked only by a call that finds no recorded length (the
\* first call), at most once per lane in that call, and that call leaves a
\* recorded length behind; a call that finds a recorded length invokes no
\* reset, whatever the lanes' configs and completion, and leaves a recorded
\* length behind: the first-call phase is never entered again.
C19_ResetOnlyInFirstCall ==
    [][CallStep
       => /\ \A i \in Lanes : Len(OpsOf(trace', i, "reset")) <= 1
          /\ (\E k \in 1 .. Len(trace') : trace'[k][2] = "reset")
                => /\ last_input_id_length = None
                   /\ last_input_id_length' # None
          /\ last_input_id_length # None
                => /\ last_input_id_length' # None
                   /\ \A k \in 1 .. Len(trace') : trace'[k][2] # "reset"]_vars

\* a later call ran to its end on a lane that was Completed on entry and has
\* reset_on_completion set, and did not reset it
C19_Witness ==
    /\ LaterCall
    /\ outcome = "ok"
    /\ \E i \in Lanes :
          /\ configs[i].reset_on_completion
          /\ LaneStateOps(trace, i) = <<>>
          /\ OpsOf(trace, i, "fill") # <<>>
          /\ formatters[i].pos = GrammarLen

\* ------------------------------------------------------------------- C20
\* C20: when accept_token raises on lane i the call leaves the controller
\* partly updated: the recorded length is the history length (first call) or
\* one more than before (later call), every lane before i has performed all
\* its operations, no lane after i has performed any and its state machine is
\* as before; and a call after the first whose history length equals the
\* recorded length, as a retry has it, is stopped by the length assertion.
C20_PartialUpdateOnRaise ==
    [][(CallStep /\ Len(input_ids') = Len(formatters))
       => LET T == Len(input_ids'[1])
          IN  /\ outcome' = "accept_error"
                   => LET i == trace'[Len(trace')][1]
                      IN  /\ last_input_id_length'
                               = (IF last_input_id_length = None THEN T
                                  ELSE last_input_id_length + 1)
                          /\ last_input_id_length' = T
                          /\ \A j \in Lanes :
                                j > i => /\ OpsOf(trace', j, "accept_token") = <<>>
                                         /\ OpsOf(trace', j, "reset") = <<>>
                                         /\ formatters'[j] = formatters[j]
                          /\ \A j \in Lanes :
                                j < i =>
                                  /\ OpsOf(trace', j, "raise") = <<>>
                                  /\ LaneStateOps(trace', j)
                                       = (IF last_input_id_length = None
                                          THEN ExpectedFirstOps(j, formatters, input_ids')
                                          ELSE IF input_ids'[j][T] = eos_token_id
                                          THEN <<>>
                                          ELSE <<Ev(j, "accept_token", input_ids'[j][T])>>)
              /\ (last_input_id_length # None /\ T = last_input_id_length)
                   => /\ outcome' = "assert_length"
                      /\ formatters' = formatters]_vars

\* accept_token raised on the second lane after the first lane consumed a token
C20_Witness ==
    /\ outcome = "accept_error"
    /\ last_input_id_length = Len(input_ids[1])
    /\ \E i, j \in Lanes :
          /\ i < j
          /\ OpsOf(trace, i, "accept_token") # <<>>
          /\ OpsOf(trace, i, "raise") = <<>>
          /\ OpsOf(trace, j, "raise") # <<>>
          /\ \A k \in Lanes : k > j => LaneStateOps(trace, k) = <<>>

\* ===================================================== the constructor
\* EngineGenerationConfig(): reset_on_completion off, read_prompt on
DefaultConfig == [reset_on_completion |-> FALSE, read_prompt |-> TRUE]

\* the size check left out
ConfigsOk_Unchecked(cfgs, fs) == TRUE

\* line 85: assert len(configs) == len(formatters)
ConfigsOk(cfgs, fs) == Len(cfgs) = Len(fs)

\* lines 77-86: __init__(formatters, eos_token_id, configs=None); given tells
\* whether the configs argument was passed (is not None)
DoInit(fs, eos, given, cfgs) ==
    LET cfgs1 == IF ~given THEN [i \in 1 .. Len(fs) |-> DefaultConfig] ELSE cfgs
    IN  IF ~ConfigsOk(cfgs1, fs)
        THEN [outcome |-> "assert_configs", formatters |-> <<>>, eos |-> None,
              last |-> None, configs |-> <<>>]
        ELSE [outcome |-> "constructed", formatters |-> fs, eos |-> eos,
              last |-> None, configs |-> cfgs1]

\* the lists a caller may pass: up to one more element than the lanes modelled
ListsOf(S) == UNION {[1 .. n -> S] : n \in 0 .. (NumLanes + 1)}
FormatterLists == ListsOf([pos : 0 .. GrammarLen, allowed : {{}}])
ConfigLists == ListsOf([reset_on_completion : BOOLEAN, read_prompt : BOOLEAN])

\* Nothing is constructed yet; args holds the arguments of the constructor
\* call to come.
InitCtor ==
    /\ args \in [formatters : FormatterLists, eos_token_id : {VocabSize - 1},
                 given : BOOLEAN, configs : ConfigLists]
    /\ ~args.given => args.configs = <<>>
    /\ result = "none"
    /\ formatters = <<>>
    /\ configs = <<>>
    /\ eos_token_id = None
    /\ last_input_id_length = None
    /\ input_ids = <<>>
    /\ scores_in = <<>>
    /\ scores = <<>>
    /\ mask_in_place = TRUE
    /\ length_before = None
    /\ outcome = "none"
    /\ trace = <<>>
    /\ twin = <<>>

\* lines 77-86: the constructor runs; when it raises, no object is bound
Construct ==
    /\ result = "none"
    /\ LET r == DoInit(args.formatters, args.eos_token_id, args.given, args.configs)
       IN  /\ result' = r.outcome
           /\ formatters' = r.formatters
           /\ configs' = r.configs
           /\ eos_token_id' = r.eos
           /\ last_input_id_length' = r.last
    /\ UNCHANGED <<args, input_ids, scores_in, scores, mask_in_place,
                   length_before, outcome, trace, twin>>

NextCtor == Construct

SpecCtor == InitCtor /\ [][NextCtor]_vars

\* ------------------------------------------------------------------- C11
\* C11: a constructor call with N state machines and no configs yields a
\* controller with exactly N default configs; a call with a configs list of
\* another length than N fails with the configuration-size assertion and
\* yields no controller; every constructed controller has as many configs as
\* state machines.
C11_ConfigsMatchFormatters ==
    result # "none"
    => /\ ~args.given
            => /\ result = "constructed"
               /\ Len(configs) = Len(args.formatters)
               /\ \A i \in 1 .. Len(configs) : configs[i] = DefaultConfig
       /\ (args.given /\ Len(args.configs) # Len(args.formatters))
            => /\ result = "assert_configs"
               /\ formatters = <<>>
               /\ configs = <<>>
       /\ result = "constructed"
            => /\ formatters = args.formatters
               /\ Len(configs) = Len(formatters)
               /\ args.given => configs = args.configs

\* a configs list one longer than the list of state machines was passed and
\* the constructor raised
C11_Witness ==
    /\ result = "assert_configs"
    /\ args.given
    /\ Len(args.formatters) = NumLanes
    /\ Len(args.configs) = NumLanes + 1

\* ======================================================== the extractors
\* (src/formatron/extractor.py). A string is a sequence of characters.
MaxStr == 3
Chars == {"a", "b"}
StringsOver(C, n) == UNION {[1 .. k -> C] : k \in 0 .. n}
Strings == StringsOver(Chars, MaxStr)

\* Python's None as a result, and the truth value Python gives a result in
\* "if matched:": None and the empty tuple are false, any other tuple is true
Absent == <<>>
Truthy(v) == Len(v) > 0

\* s[i:] for 0 <= i
SliceFrom(s, i) == SubSeq(s, i + 1, Len(s))

\* str.find's result when there is no occurrence
NotFound == -1

\* the highest index of an occurrence (str.rfind)
RECURSIVE find_Last(_, _, _)
find_Last(s, sub, k) ==
    LET top == Len(s) - Len(sub) - k
    IN  IF top < 0 THEN NotFound
        ELSE IF SubSeq(s, top + 1, top + Len(sub)) = sub THEN top
        ELSE find_Last(s, sub, k + 1)

\* line 108: input_str.find(literal): the lowest index at or after k at which
\* sub occurs in s, scanning from the left
RECURSIVE find(_, _, _)
find(s, sub, k) ==
    IF k > Len(s) - Len(sub) THEN NotFound
    ELSE IF SubSeq(s, k + 1, k + Len(sub)) = sub THEN k
    ELSE find(s, sub, k + 1)

\* lines 104-111: LiteralExtractor(literal).extract(input_str)
LiteralExtract(literal, input_str) ==
    LET pos == find(input_str, literal, 0)
    IN  IF pos = NotFound THEN Absent
        ELSE <<SliceFrom(input_str, pos + Len(literal)), literal>>

\* A literal extractor and an input string; extract has not been called.
InitLiteral ==
    /\ args \in [literal : Strings, input_str : Strings]
    /\ result = <<>>
    /\ formatters = <<>>
    /\ configs = <<>>
    /\ eos_token_id = None
    /\ last_input_id_length = None
    /\ input_ids = <<>>
    /\ scores_in = <<>>
    /\ scores = <<>>
    /\ mask_in_place = TRUE
    /\ length_before = None
    /\ outcome = "none"
    /\ trace = <<>>
    /\ twin = <<>>

\* the fields of the controller, which the extractors never touch
controller == <<formatters, configs, eos_token_id, last_input_id_length,
                input_ids, scores_in, scores, mask_in_place, length_before,
                outcome, trace, twin>>

\* lines 104-111: extract is called; result holds the call and what it returned
ExtractLiteral ==
    /\ result = <<>>
    /\ result' = <<"extract", LiteralExtract(args.literal, args.input_str)>>
    /\ UNCHANGED <<args, controller>>

NextLiteral == ExtractLiteral

SpecLiteral == InitLiteral /\ [][NextLiteral]_vars

\* ------------------------------------------------------------------- C12
\* the indices at which L occurs in S
Occurrences(S, L) ==
    {k \in 0 .. (Len(S) - Len(L)) : SubSeq(S, k + 1, k + Len(L)) = L}

\* C12: LiteralExtractor(L).extract(S) is absent exactly when L occurs
\* nowhere in S; otherwise it is the pair of the text of S after the
\* leftmost occurrence of L, wherever that occurrence lies, and L.
C12_LiteralExtractLeftmost ==
    result # <<>>
    => LET S == args.input_str
           L == args.literal
           v == result[2]
       IN  /\ v = Absent <=> Occurrences(S, L) = {}
           /\ Occurrences(S, L) # {}
                => \E k \in Occurrences(S, L) :
                      /\ \A j \in Occurrences(S, L) : k <= j
                      /\ v = <<SubSeq(S, k + Len(L) + 1, Len(S)), L>>

\* the literal occurs twice, not at the start, and extract returned the text
\* after the first occurrence
C12_Witness ==
    /\ result # <<>>
    /\ result[2] # Absent
    /\ Len(args.literal) >= 1
    /\ 0 \notin Occurrences(args.input_str, args.literal)
    /\ Cardinality(Occurrences(args.input_str, args.literal)) >= 2
    /\ Len(result[2][1]) >= 1

\* ------------------------------------------------- NonterminalExtractor
\* capture_name is None: a value that is no string
NoCapture == <<"None">>

\* the capture name appended without the separator
Nonterminal_NoSeparator(nonterminal, capture_name) ==
    IF capture_name = NoCapture THEN nonterminal
    ELSE nonterminal \o capture_name

\* lines 67-75: the nonterminal NonterminalExtractor.__init__ stores, which
\* the properties nonterminal (77-82) and kbnf_reference (84-86) return
Nonterminal(nonterminal, capture_name) ==
    IF capture_name = NoCapture THEN nonterminal
    ELSE nonterminal \o <<"_">> \o capture_name

\* ------------------------------------------------------ ChoiceExtractor
MaxChoices == 3
MaxLit == 1
MaxInput == 2

\* lines 113-115: LiteralExtractor.kbnf_reference, repr(literal): the literal
\* between quotes (the characters modelled need no escape)
Repr(literal) == <<"'">> \o literal \o <<"'">>

\* str.join
RECURSIVE Join(_, _)
Join(sep, strs) ==
    IF strs = <<>> THEN <<>>
    ELSE IF Len(strs) = 1 THEN strs[1]
    ELSE strs[1] \o sep \o Join(sep, Tail(strs))

\* The choices argument is typed typing.Iterable[Extractor] and stored as it
\* is (line 137). A ChoiceExtractor is modelled by the sequence its iterable
\* was built from (items: literals of LiteralExtractors), whether the iterable
\* is a one-shot iterator (a generator, iter(...), map(...)) rather than a
\* list or tuple, and how many items a one-shot iterator has given out so far.
\* "for x in it" starts at the head of a list and where a one-shot iterator
\* stands.
IterStart(obj) == IF obj.one_shot THEN obj.cursor ELSE 0

\* the loop going on after a match and returning the last match
RECURSIVE ChoiceLoop_NoStop(_, _, _)
ChoiceLoop_NoStop(items, input_str, k) ==
    IF k > Len(items) THEN [value |-> Absent, tried |-> <<>>, cursor |-> Len(items)]
    ELSE LET matched == LiteralExtract(items[k], input_str)
             rest == ChoiceLoop_NoStop(items, input_str, k + 1)
         IN  [value |-> IF Truthy(rest.value) THEN rest.value
                        ELSE IF Truthy(matched) THEN matched ELSE Absent,
              tried |-> <<k>> \o rest.tried, cursor |-> rest.cursor]

\* lines 149-152: the loop of ChoiceExtractor.extract from item k on: the
\* value returned, the items whose extract was invoked, and the number of
\* items taken from the iterable when the loop is left
RECURSIVE ChoiceLoop(_, _, _)
ChoiceLoop(items, input_str, k) ==
    IF k > Len(items) THEN [value |-> Absent, tried |-> <<>>, cursor |-> Len(items)]
    ELSE LET matched == LiteralExtract(items[k], input_str)
         IN  IF Truthy(matched)
             THEN [value |-> matched, tried |-> <<k>>, cursor |-> k]
             ELSE LET rest == ChoiceLoop(items, input_str, k + 1)
                  IN  [value |-> rest.value, tried |-> <<k>> \o rest.tried,
                       cursor |-> rest.cursor]

\* lines 139-152: ChoiceExtractor.extract(input_str)
ChoiceExtract(obj, input_str) == ChoiceLoop(obj.items, input_str, IterStart(obj) + 1)

\* lines 154-156: ChoiceExtractor.kbnf_definition; the list comprehension
\* takes every item the iterable still gives
ChoiceDefinition(obj) ==
    LET from == IterStart(obj)
        refs == [k \in 1 .. (Len(obj.items) - from) |-> Repr(obj.items[from + k])]
    IN  Nonterminal(obj.nonterminal, obj.capture_name)
          \o <<" ", ":", ":", "=", " ">>
          \o Join(<<" ", "|", " ">>, refs)
          \o <<";">>

\* the input strings extract is called with
ChoiceInputs == StringsOver(Chars, MaxInput)

ChoiceItems == UNION {[1 .. n -> StringsOver(Chars, MaxLit)] : n \in 0 .. MaxChoices}

\* A ChoiceExtractor after construction (lines 127-137).
InitChoice ==
    /\ args \in [items : ChoiceItems, one_shot : BOOLEAN, cursor : {0},
                 nonterminal : {<<"a">>}, capture_name : {<<"b">>}]
    /\ result = <<>>
    /\ formatters = <<>>
    /\ configs = <<>>
    /\ eos_token_id = None
    /\ last_input_id_length = None
    /\ input_ids = <<>>
    /\ scores_in = <<>>
    /\ scores = <<>>
    /\ mask_in_place = TRUE
    /\ length_before = None
    /\ outcome = "none"
    /\ trace = <<>>
    /\ twin = <<>>

\* lines 139-152: extract is called; a one-shot iterator keeps its place
ExtractChoice ==
    /\ \E input_str \in ChoiceInputs :
          LET r == ChoiceExtract(args, input_str)
          IN  /\ result' = [op |-> "extract", input_str |-> input_str,
                            value |-> r.value, tried |-> r.tried]
              /\ args' = [args EXCEPT !.cursor = IF args.one_shot THEN r.cursor ELSE @]
    /\ UNCHANGED controller

\* lines 154-156: kbnf_definition is read; a one-shot iterator is used up
DefineChoice ==
    /\ result' = [op |-> "kbnf_definition", input_str |-> <<>>,
                  value |-> ChoiceDefinition(args), tried |-> <<>>]
    /\ args' = [args EXCEPT !.cursor = IF args.one_shot THEN Len(args.items) ELSE @]
    /\ UNCHANGED controller

NextChoice == ExtractChoice \/ DefineChoice

SpecChoice == InitChoice /\ [][NextChoice]_vars

\* ------------------------------------------------------------------- C13
\* the first item in construction order whose extract is not absent (none: 0)
FirstHit(items, S) ==
    LET hits == {k \in 1 .. Len(items) : LiteralExtract(items[k], S) # Absent}
    IN  IF hits = {} THEN 0 ELSE CHOOSE k \in hits : \A j \in hits : k <= j

\* the lists that are items with the items after position k put in any order
TailOrders(items, k) ==
    LET tail == (k + 1) .. Len(items)
    IN  {[j \in 1 .. Len(items) |-> IF j <= k THEN items[j] ELSE items[q[j]]] :
            q \in {q \in [tail -> tail] : \A x, y \in tail : q[x] = q[y] => x = y}}

\* C13: for a ChoiceExtractor built from an ordered list of sub-extractors,
\* extract(S) returns what the first sub-extractor in construction order with
\* a non-absent result returns; it invokes the sub-extractors up to that one,
\* in order, and none after it; an extractor whose list differs only in the
\* order of the later sub-extractors returns the same; and the result is
\* absent exactly when every sub-extractor returns absent.
C13_FirstMatchWins ==
    (result # <<>> /\ ~args.one_shot /\ result.op = "extract")
    => LET S == result.input_str
           h == FirstHit(args.items, S)
       IN  /\ h = 0 => /\ result.value = Absent
                       /\ result.tried = [k \in 1 .. Len(args.items) |-> k]
           /\ h # 0 => /\ result.value = LiteralExtract(args.items[h], S)
                       /\ result.tried = [k \in 1 .. h |-> k]
                       /\ \A items2 \in TailOrders(args.items, h) :
                             ChoiceExtract([args EXCEPT !.items = items2], S).value
                               = result.value
           /\ result.value = Absent
                <=> \A k \in 1 .. Len(args.items) :
                       LiteralExtract(args.items[k], S) = Absent

\* the first sub-extractor failed, the second and the third both match with
\* different results, and extract returned the second's
C13_Witness ==
    /\ result # <<>>
    /\ ~args.one_shot
    /\ result.op = "extract"
    /\ Len(args.items) = 3
    /\ result.tried = <<1, 2>>
    /\ LiteralExtract(args.items[3], result.input_str) # Absent
    /\ LiteralExtract(args.items[3], result.input_str) # result.value

\* ------------------------------------------------------------------- C14
\* the rule over all sub-extractors in construction order
ExpectedDefinition(obj) ==
    Nonterminal(obj.nonterminal, obj.capture_name)
      \o <<" ", ":", ":", "=", " ">>
      \o Join(<<" ", "|", " ">>, [k \in 1 .. Len(obj.items) |-> Repr(obj.items[k])])
      \o <<";">>

\* C14: whenever kbnf_definition is read it is the rule
\* reference ::= ref_1 | ref_2 | ... ; over all sub-extractors in
\* construction order, and whenever extract is called it tries the
\* sub-extractors in that same order from the first one on, however many
\* times either has been called before.
C14_DefinitionOrderIsExtractOrder ==
    result # <<>>
    => /\ result.op = "kbnf_definition" => result.value = ExpectedDefinition(args)
       /\ result.op = "extract"
            => \E n \in 0 .. Len(args.items) :
                  /\ result.tried = [k \in 1 .. n |-> k]
                  /\ n = Len(args.items) \/ Truthy(result.value)

\* ------------------------------------------- two NonterminalExtractors
MaxName == 3
NameChars == {"a", "_"}
\* names are not empty
Names == StringsOver(NameChars, MaxName) \ {<<>>}

\* The arguments of two constructor calls of one grammar.
InitNonterminal ==
    /\ args \in [1 .. 2 -> [nonterminal : Names, capture_name : Names \cup {NoCapture}]]
    /\ result = <<>>
    /\ formatters = <<>>
    /\ configs = <<>>
    /\ eos_token_id = None
    /\ last_input_id_length = None
    /\ input_ids = <<>>
    /\ scores_in = <<>>
    /\ scores = <<>>
    /\ mask_in_place = TRUE
    /\ length_before = None
    /\ outcome = "none"
    /\ trace = <<>>
    /\ twin = <<>>

\* lines 67-86: both extractors are constructed and their kbnf_reference read
ConstructNonterminals ==
    /\ result = <<>>
    /\ result' = [e \in 1 .. 2 |-> Nonterminal(args[e].nonterminal, args[e].capture_name)]
    /\ UNCHANGED <<args, controller>>

NextNonterminal == ConstructNonterminals

SpecNonterminal == InitNonterminal /\ [][NextNonterminal]_vars

\* ------------------------------------------------------------------- C15
\* C15: an extractor without capture name has its base name as reference;
\* an extractor with capture name c has base name, "_", c; and two extractors
\* with the same base name and two different capture names have different
\* references.
C15_ReferenceIsSuffixedBase ==
    result # <<>>
    => /\ \A e \in 1 .. 2 :
             /\ args[e].capture_name = NoCapture => result[e] = args[e].nonterminal
             /\ args[e].capture_name # NoCapture
                  => result[e] = args[e].nonterminal \o <<"_">> \o args[e].capture_name
       /\ (/\ args[1].nonterminal = args[2].nonterminal
           /\ args[1].capture_name # NoCapture
           /\ args[2].capture_name # NoCapture
           /\ args[1].capture_name # args[2].capture_name)
            => result[1] # result[2]

\* same base name, two different capture names of which one begins like the
\* other, two different references
C15_Witness ==
    /\ result # <<>>
    /\ args[1].nonterminal = args[2].nonterminal
    /\ args[1].capture_name = <<"a">>
    /\ args[2].capture_name = <<"a", "_">>
    /\ result[1] # result[2]
    /\ Len(result[2]) = Len(result[1]) + 1

\* ------------------------------------------------------------------- C16
\* C16: two nonterminal extractors that differ in base name or in capture
\* name, one of them possibly without capture name, have different
\* references.
C16_SuffixingIsCollisionFree ==
    (result # <<>> /\ args[1] # args[2]) => result[1] # result[2]

\* ================================================= the engine vocabulary
\* (transformers.py, lines 12-46). A vocabulary (a Python dict from token
\* string to token id) is the sequence of its <<key, value>> items in
\* insertion order, and so is every other dict.
MaxVocab == 3

DictHas(d, k) == \E i \in 1 .. Len(d) : d[i][1] = k
\* d[k] = v: a key already there keeps its place and takes the new value
DictSet(d, k, v) ==
    IF DictHas(d, k)
    THEN [i \in 1 .. Len(d) |-> IF d[i][1] = k THEN <<k, v>> ELSE d[i]]
    ELSE Append(d, <<k, v>>)

\* line 44: the characters create_engine_vocabulary asks for
WhitespaceChars == <<<<" ">>, <<"\n">>, <<"\t">>, <<"\n", "\n">>>>

\* how a byte-level tokenizer spells a character in its vocabulary
Respelled(char) ==
    IF char = <<" ">> THEN <<"G">>
    ELSE IF char = <<"\n">> THEN <<"C">>
    ELSE IF char = <<"\n", "\n">> THEN <<"C", "C">>
    ELSE char

\* the token strings a modelled vocabulary is made of
TokenPool == {<<"a">>, <<" ">>, <<"G">>, <<"a", "G">>, <<"\n">>, <<"C">>,
              <<"C", "C">>, <<"\t">>}

\* key occurs in text at index p (from 0)
MatchAt(text, p, key) ==
    /\ p + Len(key) <= Len(text)
    /\ SubSeq(text, p + 1, p + Len(key)) = key

\* line 16: regex.sub over a pattern with at least one alternative, none
\* empty: at each index from the left the first alternative, in the order of
\* the dict's keys, that matches there is replaced by its value
RECURSIVE Sub(_, _, _)
Sub(replacements, text, p) ==
    IF p >= Len(text) THEN <<>>
    ELSE LET hits == {i \in 1 .. Len(replacements) :
                         MatchAt(text, p, replacements[i][1])}
         IN  IF hits = {} THEN <<text[p + 1]>> \o Sub(replacements, text, p + 1)
             ELSE LET i == CHOOSE i \in hits : \A j \in hits : i <= j
                  IN  replacements[i][2]
                        \o Sub(replacements, text, p + Len(replacements[i][1]))

\* lines 12-16: _multiple_replace. With no key the pattern is "()", which
\* matches the empty string at every index, also of an empty text, and the
\* callback's look-up replacements[""] raises KeyError.
multiple_replace(replacements, text) ==
    IF replacements = <<>> THEN [ok |-> FALSE, text |-> <<>>]
    ELSE [ok |-> TRUE, text |-> Sub(replacements, text, 0)]

\* lines 21 and 27: id2tokens[char_id]
TokenOf(vocab, id) == vocab[CHOOSE i \in 1 .. Len(vocab) : vocab[i][2] = id][1]

\* lines 22-30: the loop that collects old_char_to_new_char, from char k on
RECURSIVE CollectReplacements(_, _, _, _, _)
CollectReplacements(encode, vocab, chars, k, dict) ==
    IF k > Len(chars) THEN dict
    ELSE LET char == chars[k]
             char_ids == encode[k]
         IN  IF Len(char_ids) # 1
             THEN CollectReplacements(encode, vocab, chars, k + 1, dict)
             ELSE LET char_token == TokenOf(vocab, char_ids[1])
                  IN  CollectReplacements(encode, vocab, chars, k + 1,
                          IF char_token # char THEN DictSet(dict, char_token, char)
                          ELSE dict)

\* lines 31-34: the loop that fills new_vocab, from item k on; an exception
\* of _multiple_replace leaves the function
RECURSIVE RewriteKeys(_, _, _, _)
RewriteKeys(replacements, vocab, k, new_vocab) ==
    IF k > Len(vocab) THEN [ok |-> TRUE, vocab |-> new_vocab]
    ELSE LET r == multiple_replace(replacements, vocab[k][1])
         IN  IF ~r.ok THEN [ok |-> FALSE, vocab |-> <<>>]
             ELSE RewriteKeys(replacements, vocab, k + 1,
                              DictSet(new_vocab, r.text, vocab[k][2]))

\* lines 19-34: _get_original_whitespace_characters(tokenizer, vocab, chars);
\* encode[k] is tokenizer.encode(chars[k])
get_original_whitespace_characters(encode, vocab, chars) ==
    RewriteKeys(CollectReplacements(encode, vocab, chars, 1, <<>>), vocab, 1, <<>>)

\* the vocabularies modelled: up to MaxVocab different tokens of the pool in
\* any order, the ids 0, 1, ... in that order
Vocabularies ==
    UNION {{[i \in 1 .. n |-> <<t[i], i - 1>>] :
              t \in {t \in [1 .. n -> TokenPool] :
                        \A i, j \in 1 .. n : t[i] = t[j] => i = j}} :
           n \in 0 .. MaxVocab}

\* what tokenizer.encode may return for a character: the id of the token
\* spelled like the character or like its respelling, when the vocabulary
\* has it, or more than one id
Encodings(vocab, char) ==
    {<<vocab[i][2]>> : i \in {i \in 1 .. Len(vocab) :
                                 vocab[i][1] \in {char, Respelled(char)}}}
       \cup {<<0, 0>>}

\* A tokenizer: its vocabulary and its encoding of the four characters.
InitVocab ==
    /\ \E vocab \in Vocabularies :
          \E encode \in [1 .. Len(WhitespaceChars) -> UNION {Encodings(vocab, WhitespaceChars[k]) : k \in 1 .. Len(WhitespaceChars)}] :
             /\ \A k \in 1 .. Len(WhitespaceChars) :
                   encode[k] \in Encodings(vocab, WhitespaceChars[k])
             /\ args = [vocab |-> vocab, encode |-> encode]
    /\ result = <<>>
    /\ formatters = <<>>
    /\ configs = <<>>
    /\ eos_token_id = None
    /\ last_input_id_length = None
    /\ input_ids = <<>>
    /\ scores_in = <<>>
    /\ scores = <<>>
    /\ mask_in_place = TRUE
    /\ length_before = None
    /\ outcome = "none"
    /\ trace = <<>>
    /\ twin = <<>>

\* lines 43-44: create_engine_vocabulary canonicalizes the vocabulary
Canonicalize ==
    /\ result = <<>>
    /\ result' = get_original_whitespace_characters(args.encode, args.vocab,
                                                    WhitespaceChars)
    /\ UNCHANGED <<args, controller>>

NextVocab == Canonicalize

SpecVocab == InitVocab /\ [][NextVocab]_vars

\* ------------------------------------------------------------------- C17
\* the characters whose encoding is a single token spelled otherwise, each
\* with that spelling
RespelledChars ==
    {k \in 1 .. Len(WhitespaceChars) :
        /\ Len(args.encode[k]) = 1
        /\ TokenOf(args.vocab, args.encode[k][1]) # WhitespaceChars[k]}
SpellingOf(k) == TokenOf(args.vocab, args.encode[k][1])
Contains(text, key) == \E p \in 0 .. Len(text) : MatchAt(text, p, key)

\* C17: canonicalization completes; an entry that contains the spelling of a
\* respelled character comes back without any occurrence of that spelling
\* and with its id; every other entry comes back unchanged; when no character
\* is respelled the vocabulary comes back unchanged.
C17_CanonicalizationRewritesSpellings ==
    result # <<>>
    => /\ result.ok
       /\ Len(result.vocab) = Len(args.vocab)
       /\ \A i \in 1 .. Len(result.vocab) :
             /\ result.vocab[i][2] = args.vocab[i][2]
             /\ \A k \in RespelledChars :
                   ~Contains(result.vocab[i][1], SpellingOf(k))
             /\ (\A k \in RespelledChars : ~Contains(args.vocab[i][1], SpellingOf(k)))
                  => result.vocab[i][1] = args.vocab[i][1]
       /\ RespelledChars = {} => result.vocab = args.vocab

\* ------------------------------------------------------------------- C18
\* the token ids of a vocabulary
IdsOf(vocab) == {vocab[i][2] : i \in 1 .. Len(vocab)}

\* C18: when canonicalization completes, the canonicalized vocabulary holds
\* every token id of the input vocabulary, each exactly once.
C18_CanonicalizationKeepsEveryId ==
    (result # <<>> /\ result.ok)
    => /\ IdsOf(result.vocab) = IdsOf(args.vocab)
       /\ Len(result.vocab) = Len(args.vocab)
====
